---- MODULE Spec2Model ----
(***************************************************************************)
(* Model of the Game component of src/app/page.tsx: the React state of     *)
(* the two-player session, the relay socket the socket effect creates,     *)
(* the camera / pose-model set-up chain of the camera effect, and the      *)
(* asynchronous shot handler.                                              *)
(*                                                                         *)
(* State set from a socket or promise callback is batched and rendered     *)
(* later (action Commit); state set from a click is rendered, and its      *)
(* effects run, before the click returns.  A handler reads the state of    *)
(* the render that created it (rendered, sockPhase, the shot record),      *)
(* and reads refs as they are when it runs.  The user clicks on a screen   *)
(* that is up to date (no render is pending).                              *)
(*                                                                         *)
(* Scores are in hundredths (0.5 is 50); a collective score is kept as     *)
(* the pair (sum, count) and compared by cross-multiplication.             *)
(***************************************************************************)
EXTENDS Integers, Sequences, FiniteSets, TLC

\* ---------------------------------------------------------------- bounds
MaxSockets == 4
MaxStreams == 2
MaxShots == 2
MaxTicks == 4

\* ------------------------------------------------------------- constants
NULL == 0
Cooldown == 500
GraceWait == 1000
centerX == 320
centerY == 240
KeypointMin == 30
threshold == 50
headZoneMax == 240
torsoZoneMax == 408
HeadDamage == 20
TorsoDamage == 15
LowerBodyDamage == 10

Guns == {"sniper", "pistol", "shotgun"}
Devices == {1, 2}
FirstDevice == CHOOSE d \in Devices : \A e \in Devices : d <= e

\* Model time: the clock starts past the first cooldown and advances in
\* half-cooldown steps.
T0 == 2 * Cooldown
TickMs == Cooldown \div 2
MaxNow == T0 + MaxTicks * TickMs

\* Relay-side identities: a connection's id is the number of the socket
\* that made it; the opponent's ids lie outside that range.
OpponentId == MaxSockets + 2
StrangerId == MaxSockets + 3

VARIABLES
    players, gameStatus, socketId, winner, lastShot,
    selectedDeviceId, selectedGun,
    rendered,
    sockCount, sockStatus, sockPhase, sendBuffer, sent,
    enumPending,
    netLoaded, chains, streams, loops,
    shots, passedAt, lastOutcome, now, frame

reactVars == <<players, gameStatus, socketId, winner, lastShot, selectedDeviceId, selectedGun>>
sockVars == <<sockCount, sockStatus, sockPhase, sendBuffer>>
camVars == <<netLoaded, chains, streams, loops>>
shotVars == <<shots, passedAt, lastOutcome>>
vars == <<reactVars, rendered, sockVars, sent, enumPending, camVars, shotVars, now, frame>>

\* ------------------------------------------------------ pose classifier
headParts == <<"nose", "leftEye", "rightEye", "leftEar", "rightEar">>
torsoParts == <<"leftShoulder", "rightShoulder", "leftHip", "rightHip">>
lowerBodyParts == <<"leftHip", "rightHip">>

\* parts.includes(part)
Includes(parts, part) == \E i \in 1..Len(parts) : parts[i] = part

\* Mutant of Radius: every weapon has the pistol's radius.
RadiusPistolForAll(gun) == 200

\* The weapon's aim radius in pixels.
Radius(gun) == IF gun = "sniper" THEN 100 ELSE IF gun = "pistol" THEN 200 ELSE 400

\* A score as the pair (sum, count); zero is 0/1.
ScoreOf(v) == [sum |-> v, n |-> 1]
ScoreGt(a, b) == a.sum * b.n > b.sum * a.n

\* parts.map(part => keypoints.find(k => k.part === part)).filter(k => k && k.score > 0.3):
\* a pose is a function from the parts it has a keypoint for to that keypoint.
HasKeypoint(pose, part) == part \in DOMAIN pose /\ pose[part].score > KeypointMin
GroupKeypoints(parts, pose) == SelectSeq(parts, LAMBDA part : HasKeypoint(pose, part))

RECURSIVE SumScores(_, _)
SumScores(kps, pose) == IF kps = <<>> THEN 0 ELSE pose[Head(kps)].score + SumScores(Tail(kps), pose)

\* The mean score of the group's keypoints, 0 when there is none.
CollectiveScore(parts, pose) ==
    LET kps == GroupKeypoints(parts, pose)
    IN  IF Len(kps) > 0 THEN [sum |-> SumScores(kps, pose), n |-> Len(kps)] ELSE ScoreOf(0)

headScore(pose) == CollectiveScore(headParts, pose)
torsoScore(pose) == CollectiveScore(torsoParts, pose)
lowerBodyScore(pose) == CollectiveScore(lowerBodyParts, pose)

\* [...headKeypoints, ...torsoKeypoints, ...lowerBodyKeypoints]
allKeypoints(pose) ==
    GroupKeypoints(headParts, pose) \o GroupKeypoints(torsoParts, pose) \o GroupKeypoints(lowerBodyParts, pose)

\* Mutant of InRange: distance <= radius.
InRangeInclusive(kp, radius) ==
    (kp.x - centerX) * (kp.x - centerX) + (kp.y - centerY) * (kp.y - centerY) <= radius * radius

\* distance < radius, with distance = sqrt(dx^2 + dy^2) and radius > 0
InRange(kp, radius) ==
    (kp.x - centerX) * (kp.x - centerX) + (kp.y - centerY) * (kp.y - centerY) < radius * radius

NoHit == [hitDetected |-> FALSE, damage |-> 0, bestScore |-> ScoreOf(0), hitType |-> ""]

\* Mutant of HitStep: the torso band has no lower edge at torsoZoneMax.
HitStepTorsoToBottom(acc, part, pose, radius) ==
    LET kp == pose[part]
        better(score, dmg, type) ==
            IF ScoreGt(score, acc.bestScore)
            THEN [acc EXCEPT !.bestScore = score, !.damage = dmg, !.hitType = type]
            ELSE acc
        zone ==
            IF Includes(headParts, part) /\ kp.y < headZoneMax /\ ScoreGt(headScore(pose), ScoreOf(threshold))
            THEN better(headScore(pose), HeadDamage, "Headshot")
            ELSE IF /\ Includes(torsoParts, part)
                    /\ kp.y >= headZoneMax
                    /\ ScoreGt(torsoScore(pose), ScoreOf(threshold))
            THEN better(torsoScore(pose), TorsoDamage, "Torso shot")
            ELSE IF /\ Includes(lowerBodyParts, part)
                    /\ kp.y >= torsoZoneMax
                    /\ ScoreGt(lowerBodyScore(pose), ScoreOf(threshold))
            THEN better(lowerBodyScore(pose), LowerBodyDamage, "Lower body shot")
            ELSE acc
    IN  IF InRange(kp, radius) THEN [zone EXCEPT !.hitDetected = TRUE] ELSE acc

\* One iteration of the loop over allKeypoints.
HitStep(acc, part, pose, radius) ==
    LET kp == pose[part]
        better(score, dmg, type) ==
            IF ScoreGt(score, acc.bestScore)
            THEN [acc EXCEPT !.bestScore = score, !.damage = dmg, !.hitType = type]
            ELSE acc
        zone ==
            IF Includes(headParts, part) /\ kp.y < headZoneMax /\ ScoreGt(headScore(pose), ScoreOf(threshold))
            THEN better(headScore(pose), HeadDamage, "Headshot")
            ELSE IF /\ Includes(torsoParts, part)
                    /\ kp.y >= headZoneMax
                    /\ kp.y < torsoZoneMax
                    /\ ScoreGt(torsoScore(pose), ScoreOf(threshold))
            THEN better(torsoScore(pose), TorsoDamage, "Torso shot")
            ELSE IF /\ Includes(lowerBodyParts, part)
                    /\ kp.y >= torsoZoneMax
                    /\ ScoreGt(lowerBodyScore(pose), ScoreOf(threshold))
            THEN better(lowerBodyScore(pose), LowerBodyDamage, "Lower body shot")
            ELSE acc
    IN  IF InRange(kp, radius) THEN [zone EXCEPT !.hitDetected = TRUE] ELSE acc

RECURSIVE HitLoop(_, _, _, _)
HitLoop(acc, kps, pose, radius) ==
    IF kps = <<>> THEN acc
    ELSE HitLoop(HitStep(acc, Head(kps), pose, radius), Tail(kps), pose, radius)

\* hitDetected, damage, bestScore and hitType after the loop.
DetectHit(pose, gun) == HitLoop(NoHit, allKeypoints(pose), pose, Radius(gun))

\* ------------------------------------------------------- bounded inputs
\* Keypoint positions: head zone in range of the pistol (distance 140) and
\* of the sniper (40), the frame center on the head/torso boundary, the lower
\* zone in range of the shotgun alone (210), and the corner at exactly 400.
PosePoints == {<<320, 100>>, <<320, 200>>, <<320, 240>>, <<320, 450>>, <<0, 0>>}
PoseScores == {20, 40, 90}
PoseParts == {"nose", "leftEye", "leftShoulder", "leftHip"}
Keypoints == {[x |-> p[1], y |-> p[2], score |-> s] : p \in PosePoints, s \in PoseScores}
Poses == UNION {[S -> Keypoints] : S \in SUBSET PoseParts}

\* Poses of the two hips, which the torso and the lower-body group share.
HipPoses == [{"leftHip", "rightHip"} -> Keypoints]

Kp(x, y, score) == [x |-> x, y |-> y, score |-> score]

\* Poses of a left hip of score 0.6 low in the frame, alone or next to
\* keypoints too faint for the 0.3 filter.
FaintKeypoints == {k \in Keypoints : k.score <= KeypointMin}
LeftHipPoses ==
    UNION {{[part \in S \cup {"leftHip"} |-> IF part = "leftHip" THEN Kp(320, 450, 60) ELSE f[part]] :
               f \in [S -> FaintKeypoints]} : S \in SUBSET {"nose", "leftShoulder"}}
EmptyPose == [part \in {} |-> Kp(0, 0, 0)]
SessionPoses == {EmptyPose, [part \in {"nose"} |-> Kp(320, 200, 90)]}

\* ------------------------------------------------------ relay payloads
\* Rosters the relay may deliver on connection c: one player, two players,
\* the same id twice, three players.
Rosters(c) == {<<c>>, <<c, OpponentId>>, <<OpponentId, OpponentId>>, <<c, OpponentId, StrangerId>>}
\* Winner ids the relay may name: this connection, the opponent.
Winners(c) == {c, OpponentId}

\* ------------------------------------------------------------- helpers
\* What the closures of a render see.
Snapshot(gs, sid, ls, dev, gun) ==
    [gameStatus |-> gs, socketId |-> sid, lastShot |-> ls, selectedDeviceId |-> dev, selectedGun |-> gun]

\* videoRef.current / canvasRef.current: the <video> and <canvas> elements
\* exist in the tree of a render with gameStatus "ready" only.
VideoMounted(gs) == gs = "ready"

\* socketRef.current: the socket effect has stored a socket in the ref.
SocketCreated == sockCount > 0

\* The camera effect's early return (line 80) does not happen.
CameraStarts(gs, dev) == gs # "waiting" /\ VideoMounted(gs) /\ dev # NULL

JoinMsg(c) == [type |-> "joinGame", sock |-> c, shooterId |-> NULL, damage |-> 0]
ResetMsg(c) == [type |-> "resetGame", sock |-> c, shooterId |-> NULL, damage |-> 0]
ShootMsg(c, sid, dmg) == [type |-> "shoot", sock |-> c, shooterId |-> sid, damage |-> dmg]

\* socket.emit on the current socket: written to the relay when connected,
\* kept in the socket's send buffer otherwise.  sent holds what the last
\* write put on the wire.
EmitSent(msg) == IF sockStatus = "connected" THEN <<msg>> ELSE sent
EmitBuffer(msg) == IF sockStatus = "connected" THEN sendBuffer ELSE Append(sendBuffer, msg)

\* The dependency arrays of the two effects.
SocketDepsChanged(gs) == gs # rendered.gameStatus
CameraDepsChanged(gs, dev, gun) ==
    gs # rendered.gameStatus \/ dev # rendered.selectedDeviceId \/ gun # rendered.selectedGun

\* The commit can be taken within the bounds of the model.
CanCommit(gs, dev, gun) ==
    /\ SocketDepsChanged(gs) => sockCount < MaxSockets
    /\ (CameraDepsChanged(gs, dev, gun) /\ CameraStarts(gs, dev)) => chains.camera + streams < MaxStreams

\* The socket effect (lines 31-77) of a commit: when gameStatus changed, the
\* cleanup disconnects the socket (what it had buffered is never sent), and the
\* effect enumerates the devices again and opens a new socket whose handlers
\* see the new gameStatus.  buf is the send buffer the handler left.
SocketEffect(gs, buf) ==
    IF SocketDepsChanged(gs)
    THEN /\ sockCount' = sockCount + 1
         /\ sockStatus' = "connecting"
         /\ sockPhase' = gs
         /\ sendBuffer' = <<>>
         /\ enumPending' = enumPending + 1
    ELSE /\ sendBuffer' = buf
         /\ UNCHANGED <<sockCount, sockStatus, sockPhase, enumPending>>

\* The camera effect (lines 79-113, 186) of a commit: it has no cleanup, so
\* what earlier runs started goes on; a run past the early return asks for
\* a camera stream.
CameraEffect(gs, dev, gun) ==
    IF CameraDepsChanged(gs, dev, gun) /\ CameraStarts(gs, dev)
    THEN /\ chains' = [chains EXCEPT !.camera = @ + 1]
         /\ UNCHANGED <<netLoaded, streams, loops>>
    ELSE UNCHANGED camVars

\* React commits the state in the primed variables and runs the effects.
RunEffects(buf) ==
    /\ rendered' = Snapshot(gameStatus', socketId', lastShot', selectedDeviceId', selectedGun')
    /\ SocketEffect(gameStatus', buf)
    /\ CameraEffect(gameStatus', selectedDeviceId', selectedGun')

Dirty == rendered # Snapshot(gameStatus, socketId, lastShot, selectedDeviceId, selectedGun)

\* ---------------------------------------------------------------- Init
\* After the first render and its effects: the lobby, a socket connecting,
\* the device enumeration pending, the camera effect returned early.
InitSession ==
    /\ players = <<>>
    /\ gameStatus = "waiting"
    /\ socketId = NULL
    /\ winner = NULL
    /\ lastShot = 0
    /\ selectedDeviceId = NULL
    /\ selectedGun = "pistol"
    /\ rendered = Snapshot("waiting", NULL, 0, NULL, "pistol")
    /\ sockCount = 1
    /\ sockStatus = "connecting"
    /\ sockPhase = "waiting"
    /\ sendBuffer = <<>>
    /\ sent = <<>>
    /\ enumPending = 1
    /\ netLoaded = FALSE
    /\ chains = [camera |-> 0, video |-> 0, loading |-> 0]
    /\ streams = 0
    /\ loops = 0
    /\ shots = {}
    /\ passedAt = 0
    /\ lastOutcome = "none"
    /\ now = T0

Init == InitSession /\ frame = EmptyPose

\* ------------------------------------------------------ relay events
\* socket.on("connect"): the socket is connected, what was buffered is sent,
\* the handler records the connection's id and joins the game.
SocketConnect ==
    /\ sockStatus = "connecting"
    /\ sockStatus' = "connected"
    /\ sent' = Append(sendBuffer, JoinMsg(sockCount))
    /\ sendBuffer' = <<>>
    /\ socketId' = sockCount
    /\ UNCHANGED <<players, gameStatus, winner, lastShot, selectedDeviceId, selectedGun>>
    /\ UNCHANGED <<rendered, sockCount, sockPhase, enumPending, camVars, shotVars, now, frame>>

\* The connection attempts are used up (reconnectionAttempts: 5); connect_error only logs.
SocketConnectFailed ==
    /\ sockStatus = "connecting"
    /\ sockStatus' = "failed"
    /\ UNCHANGED <<reactVars, rendered, sockCount, sockPhase, sendBuffer, sent, enumPending>>
    /\ UNCHANGED <<camVars, shotVars, now, frame>>

\* Mutant of PlayerUpdate: the length test is <= 2.
PlayerUpdateAtMostTwo(updatedPlayers) ==
    /\ sockStatus = "connected"
    /\ players' = updatedPlayers
    /\ gameStatus' = IF Len(updatedPlayers) <= 2 /\ sockPhase = "waiting" THEN "ready" ELSE gameStatus
    /\ UNCHANGED <<socketId, winner, lastShot, selectedDeviceId, selectedGun>>
    /\ UNCHANGED <<rendered, sockVars, sent, enumPending, camVars, shotVars, now, frame>>

\* Mutant of PlayerUpdate: the delivered roster is merged into the local one.
PlayerUpdateMerge(updatedPlayers) ==
    /\ sockStatus = "connected"
    /\ players' = players \o updatedPlayers
    /\ gameStatus' = IF Len(updatedPlayers) = 2 /\ sockPhase = "waiting" THEN "ready" ELSE gameStatus
    /\ UNCHANGED <<socketId, winner, lastShot, selectedDeviceId, selectedGun>>
    /\ UNCHANGED <<rendered, sockVars, sent, enumPending, camVars, shotVars, now, frame>>

\* socket.on("playerUpdate"), lines 53-59; gameStatus is the one of the render
\* that opened the socket.
PlayerUpdate(updatedPlayers) ==
    /\ sockStatus = "connected"
    /\ players' = updatedPlayers
    /\ gameStatus' = IF Len(updatedPlayers) = 2 /\ sockPhase = "waiting" THEN "ready" ELSE gameStatus
    /\ UNCHANGED <<socketId, winner, lastShot, selectedDeviceId, selectedGun>>
    /\ UNCHANGED <<rendered, sockVars, sent, enumPending, camVars, shotVars, now, frame>>

\* Mutant of GameOver: the handler ends the game only from "ready".
GameOverFromReadyOnly(w) ==
    /\ sockStatus = "connected"
    /\ gameStatus' = IF sockPhase = "ready" THEN "over" ELSE gameStatus
    /\ winner' = w
    /\ UNCHANGED <<players, socketId, lastShot, selectedDeviceId, selectedGun>>
    /\ UNCHANGED <<rendered, sockVars, sent, enumPending, camVars, shotVars, now, frame>>

\* Mutant of GameOver: setWinner is missing.
GameOverNoWinner(w) ==
    /\ sockStatus = "connected"
    /\ gameStatus' = "over"
    /\ UNCHANGED <<players, socketId, winner, lastShot, selectedDeviceId, selectedGun>>
    /\ UNCHANGED <<rendered, sockVars, sent, enumPending, camVars, shotVars, now, frame>>

\* socket.on("gameOver"), lines 61-68.
GameOver(w) ==
    /\ sockStatus = "connected"
    /\ gameStatus' = "over"
    /\ winner' = w
    /\ UNCHANGED <<players, socketId, lastShot, selectedDeviceId, selectedGun>>
    /\ UNCHANGED <<rendered, sockVars, sent, enumPending, camVars, shotVars, now, frame>>

\* enumerateDevices().then(...), lines 33-38.
DevicesEnumerated ==
    /\ enumPending > 0
    /\ enumPending' = enumPending - 1
    /\ selectedDeviceId' = FirstDevice
    /\ UNCHANGED <<players, gameStatus, socketId, winner, lastShot, selectedGun>>
    /\ UNCHANGED <<rendered, sockVars, sent, camVars, shotVars, now, frame>>

\* React renders the batched state and runs the effects.
Commit ==
    /\ Dirty
    /\ CanCommit(gameStatus, selectedDeviceId, selectedGun)
    /\ UNCHANGED reactVars
    /\ RunEffects(sendBuffer)
    /\ UNCHANGED <<sent, shotVars, now, frame>>

\* ------------------------------------------------------ local actions
\* handleReset, lines 340-345, on the Play Again button of the "over" screen.
handleReset ==
    /\ ~Dirty
    /\ rendered.gameStatus = "over"
    /\ CanCommit("waiting", selectedDeviceId, selectedGun)
    /\ gameStatus' = "waiting"
    /\ winner' = NULL
    /\ sent' = EmitSent(ResetMsg(sockCount))
    /\ UNCHANGED <<players, socketId, lastShot, selectedDeviceId, selectedGun>>
    /\ RunEffects(EmitBuffer(ResetMsg(sockCount)))
    /\ UNCHANGED <<shotVars, now, frame>>

\* Mutant of handleGunChange: choosing a weapon also clears the last-shot time.
handleGunChangeRearms(gun) ==
    /\ ~Dirty
    /\ rendered.gameStatus = "ready"
    /\ CanCommit(gameStatus, selectedDeviceId, gun)
    /\ selectedGun' = gun
    /\ lastShot' = 0
    /\ UNCHANGED <<players, gameStatus, socketId, winner, selectedDeviceId>>
    /\ RunEffects(sendBuffer)
    /\ UNCHANGED <<sent, shotVars, now, frame>>

\* handleGunChange, lines 347-350, on the gun buttons of the "ready" screen.
handleGunChange(gun) ==
    /\ ~Dirty
    /\ rendered.gameStatus = "ready"
    /\ CanCommit(gameStatus, selectedDeviceId, gun)
    /\ selectedGun' = gun
    /\ UNCHANGED <<players, gameStatus, socketId, winner, lastShot, selectedDeviceId>>
    /\ RunEffects(sendBuffer)
    /\ UNCHANGED <<sent, shotVars, now, frame>>

\* The camera <select> of the "ready" screen, line 403.
DeviceChange(dev) ==
    /\ ~Dirty
    /\ rendered.gameStatus = "ready"
    /\ rendered.selectedDeviceId # NULL
    /\ dev # rendered.selectedDeviceId
    /\ CanCommit(gameStatus, dev, selectedGun)
    /\ selectedDeviceId' = dev
    /\ UNCHANGED <<players, gameStatus, socketId, winner, lastShot, selectedGun>>
    /\ RunEffects(sendBuffer)
    /\ UNCHANGED <<sent, shotVars, now, frame>>

\* --------------------------------------------- camera and pose model
\* getUserMedia resolves, lines 94-111: the stream is live; it is attached to
\* the <video> when there is one, and otherwise the callback throws into
\* the catch of line 112 with the stream still live.
CameraGranted ==
    /\ chains.camera > 0
    /\ streams' = streams + 1
    /\ chains' = IF VideoMounted(rendered.gameStatus)
                 THEN [chains EXCEPT !.camera = @ - 1, !.video = @ + 1]
                 ELSE [chains EXCEPT !.camera = @ - 1]
    /\ UNCHANGED <<netLoaded, loops>>
    /\ UNCHANGED <<reactVars, rendered, sockVars, sent, enumPending, shotVars, now, frame>>

\* getUserMedia rejects, line 112.
CameraDenied ==
    /\ chains.camera > 0
    /\ chains' = [chains EXCEPT !.camera = @ - 1]
    /\ UNCHANGED <<netLoaded, streams, loops>>
    /\ UNCHANGED <<reactVars, rendered, sockVars, sent, enumPending, shotVars, now, frame>>

\* onloadedmetadata and video.play() resolve, lines 100-108: initAR starts.
VideoPlaying ==
    /\ chains.video > 0
    /\ chains' = [chains EXCEPT !.video = @ - 1, !.loading = @ + 1]
    /\ UNCHANGED <<netLoaded, streams, loops>>
    /\ UNCHANGED <<reactVars, rendered, sockVars, sent, enumPending, shotVars, now, frame>>

\* initAR past its awaits, lines 166-184: the model is in netRef and the
\* render loop runs.
ARLoaded ==
    /\ chains.loading > 0
    /\ chains' = [chains EXCEPT !.loading = @ - 1]
    /\ netLoaded' = TRUE
    /\ loops' = loops + 1
    /\ UNCHANGED streams
    /\ UNCHANGED <<reactVars, rendered, sockVars, sent, enumPending, shotVars, now, frame>>

\* ---------------------------------------------------------------- shots
\* Mutant of CooldownActive: half the cooldown.
CooldownActiveHalf(t, last) == t - last < Cooldown \div 2

\* now - lastShot < 500, line 200
CooldownActive(t, last) == t - last < Cooldown

\* The attempt's continuation: what its closure holds.
ShotRecord(slow) ==
    [ pc |-> IF slow THEN "grace" ELSE "estimating",
      at |-> now,
      gun |-> rendered.selectedGun,
      socketId |-> rendered.socketId ]

\* Mutant of handleShoot: the ref guard of lines 190-197 is missing.
handleShootNoRefGuard(slow) ==
    /\ ~Dirty
    /\ rendered.gameStatus = "ready"
    /\ IF CooldownActive(now, rendered.lastShot)
       THEN UNCHANGED vars
       ELSE /\ Cardinality(shots) < MaxShots
            /\ CanCommit(gameStatus, selectedDeviceId, selectedGun)
            /\ lastShot' = now
            /\ passedAt' = now
            /\ shots' = shots \cup {ShotRecord(slow)}
            /\ UNCHANGED <<players, gameStatus, socketId, winner, selectedDeviceId, selectedGun>>
            /\ RunEffects(sendBuffer)
            /\ UNCHANGED <<sent, lastOutcome, now, frame>>

\* handleShoot up to its first await, lines 188-213, on the Shoot button of the
\* "ready" screen; slow is video.readyState < 4.
handleShoot(slow) ==
    /\ ~Dirty
    /\ rendered.gameStatus = "ready"
    /\ IF ~SocketCreated \/ ~netLoaded \/ ~VideoMounted(rendered.gameStatus)
       THEN UNCHANGED vars
       ELSE IF CooldownActive(now, rendered.lastShot)
       THEN UNCHANGED vars
       ELSE /\ Cardinality(shots) < MaxShots
            /\ CanCommit(gameStatus, selectedDeviceId, selectedGun)
            /\ lastShot' = now
            /\ passedAt' = now
            /\ shots' = shots \cup {ShotRecord(slow)}
            /\ UNCHANGED <<players, gameStatus, socketId, winner, selectedDeviceId, selectedGun>>
            /\ RunEffects(sendBuffer)
            /\ UNCHANGED <<sent, lastOutcome, now, frame>>

\* The 1000 ms timer of line 212 fires.
ShotGraceElapsed(s) ==
    /\ s.pc = "grace"
    /\ now >= s.at + GraceWait
    /\ shots' = (shots \ {s}) \cup {[s EXCEPT !.pc = "estimating"]}
    /\ UNCHANGED <<reactVars, rendered, sockVars, sent, enumPending, camVars, passedAt, lastOutcome, now, frame>>

\* estimateSinglePose resolves with the pose in front of the camera, and the
\* handler runs to its end, lines 215-334.
\* The audio cue of lines 329-331 is presentation and is left out.
ShotEstimated(s) ==
    /\ s.pc = "estimating"
    /\ LET r == DetectHit(frame, s.gun)
           msg == ShootMsg(sockCount, s.socketId, r.damage)
       IN  /\ lastOutcome' = IF r.hitDetected THEN "hit" ELSE "miss"
           /\ sent' = IF r.hitDetected THEN EmitSent(msg) ELSE sent
           /\ sendBuffer' = IF r.hitDetected THEN EmitBuffer(msg) ELSE sendBuffer
    /\ shots' = shots \ {s}
    /\ UNCHANGED <<reactVars, rendered, sockCount, sockStatus, sockPhase, enumPending, camVars, passedAt, now, frame>>

\* Mutant of ShotFailed: the failure falls through to the emit of line 327.
ShotFailedEmits(s) ==
    /\ s.pc = "estimating"
    /\ shots' = shots \ {s}
    /\ lastOutcome' = "error"
    /\ sent' = EmitSent(ShootMsg(sockCount, s.socketId, 0))
    /\ sendBuffer' = EmitBuffer(ShootMsg(sockCount, s.socketId, 0))
    /\ UNCHANGED <<reactVars, rendered, sockCount, sockStatus, sockPhase, enumPending, camVars, passedAt, now, frame>>

\* estimateSinglePose rejects: the catch of lines 335-337.
ShotFailed(s) ==
    /\ s.pc = "estimating"
    /\ shots' = shots \ {s}
    /\ lastOutcome' = "error"
    /\ UNCHANGED <<reactVars, rendered, sockVars, sent, enumPending, camVars, passedAt, now, frame>>

\* Wall-clock time passes.  Only handleShoot past the ref guard and the grace
\* timer read the clock, so it is advanced only when one of them can run.
ClockRead == (rendered.gameStatus = "ready" /\ netLoaded) \/ (\E s \in shots : s.pc = "grace")
Tick ==
    /\ ClockRead
    /\ now < MaxNow
    /\ now' = now + TickMs
    /\ UNCHANGED <<reactVars, rendered, sockVars, sent, enumPending, camVars, shotVars, frame>>

\* ----------------------------------------------------- specifications
\* The session: the relay's events, React's commits and the reset.
SessionStep ==
    \/ SocketConnect
    \/ SocketConnectFailed
    \/ \E updatedPlayers \in Rosters(sockCount) : PlayerUpdate(updatedPlayers)
    \/ \E w \in Winners(sockCount) : GameOver(w)
    \/ Commit
    \/ handleReset

\* The set-up of camera and pose model, and what restarts it.
SetupStep ==
    \/ DevicesEnumerated
    \/ \E dev \in Devices : DeviceChange(dev)
    \/ \E gun \in Guns : handleGunChange(gun)
    \/ CameraGranted
    \/ CameraDenied
    \/ VideoPlaying
    \/ ARLoaded

\* Shot attempts and the clock they read.
ShotStep ==
    \/ \E slow \in BOOLEAN : handleShoot(slow)
    \/ \E s \in shots : ShotGraceElapsed(s)
    \/ \E s \in shots : ShotEstimated(s)
    \/ \E s \in shots : ShotFailed(s)
    \/ Tick

\* Session and set-up, from the first render on.
Next == SessionStep \/ SetupStep
Spec == Init /\ [][Next]_vars

\* A game under way with weapon gun selected: two players, this client on its
\* second connection (the one opened on entering "ready"), the pose model
\* loaded, no shot made yet; one camera stream and render loop from entering
\* "ready" and one more when the weapon was changed from the pistol.
\* Spec reaches these states (with frame = EmptyPose).
InitReady(gun) ==
    /\ players = <<2, OpponentId>>
    /\ gameStatus = "ready"
    /\ socketId = 2
    /\ winner = NULL
    /\ lastShot = 0
    /\ selectedDeviceId = FirstDevice
    /\ selectedGun = gun
    /\ rendered = Snapshot("ready", 2, 0, FirstDevice, gun)
    /\ sockCount = 2
    /\ sockStatus = "connected"
    /\ sockPhase = "ready"
    /\ sendBuffer = <<>>
    /\ sent = <<JoinMsg(2)>>
    /\ enumPending = 0
    /\ netLoaded = TRUE
    /\ chains = [camera |-> 0, video |-> 0, loading |-> 0]
    /\ streams = (IF gun = "pistol" THEN 1 ELSE 2)
    /\ loops = (IF gun = "pistol" THEN 1 ELSE 2)
    /\ shots = {}
    /\ passedAt = 0
    /\ lastOutcome = "none"
    /\ now = T0

\* Shots during a game and across its end.
InitShot == InitReady("pistol") /\ frame \in SessionPoses
NextShot == SessionStep \/ ShotStep
SpecShot == InitShot /\ [][NextShot]_vars

\* One shot at each pose of the bounded input set, with each weapon.
InitPose == \E gun \in Guns : InitReady(gun) /\ frame \in Poses \cup HipPoses \cup LeftHipPoses
NextPose == handleShoot(FALSE) \/ (\E s \in shots : ShotEstimated(s))
SpecPose == InitPose /\ [][NextPose]_vars

\* One game from the first render on: the set-up of camera and pose model,
\* shots at a head in front of the camera, and the game's end.
HeadPose == [part \in {"nose"} |-> Kp(320, 200, 90)]
InitSetup == InitSession /\ frame = HeadPose
NextSetup ==
    \/ SocketConnect
    \/ SocketConnectFailed
    \/ \E updatedPlayers \in Rosters(sockCount) : PlayerUpdate(updatedPlayers)
    \/ \E w \in Winners(sockCount) : GameOver(w)
    \/ Commit
    \/ SetupStep
    \/ handleShoot(FALSE)
    \/ \E s \in shots : ShotEstimated(s)
SpecSetup == InitSetup /\ [][NextSetup]_vars

\* ---------------------------------------------------------------- claims
\* Messages on the wire or waiting in the socket's send buffer.
Outbound == {sent[i] : i \in 1..Len(sent)} \cup {sendBuffer[i] : i \in 1..Len(sendBuffer)}
ShootOutbound == {m \in Outbound : m.type = "shoot"}

\* C1: a playerUpdate received while the phase is Waiting makes the phase Ready
\* when it carries exactly 2 players and leaves it Waiting when it carries
\* fewer; either way the roster becomes the delivered one.
C1_PlayerUpdateWhileWaiting ==
    [][\A r \in Rosters(sockCount) :
          (PlayerUpdate(r) /\ gameStatus = "waiting") =>
              /\ players' = r
              /\ (Len(r) = 2 => gameStatus' = "ready")
              /\ (Len(r) < 2 => gameStatus' = "waiting")]_vars
\* A roster of two has just been received in the lobby of a later round.
C1_Witness ==
    /\ gameStatus = "ready"
    /\ rendered.gameStatus = "waiting"
    /\ Len(players) = 2
    /\ sockCount > 1

\* C2: a gameOver event received in any phase sets the phase to Over and the
\* winner to the id the event carries.
C2_GameOverAnyPhase ==
    [][\A w \in Winners(sockCount) : GameOver(w) => (gameStatus' = "over" /\ winner' = w)]_vars
\* A gameOver has just been received in the lobby.
C2_Witness ==
    /\ gameStatus = "over"
    /\ rendered.gameStatus = "waiting"
    /\ winner = OpponentId

\* C3: a reset in phase Over yields phase Waiting with the winner cleared,
\* and writes exactly one resetGame message to the relay.
C3_ResetNotifiesRelay ==
    [][(handleReset /\ gameStatus = "over") =>
          /\ gameStatus' = "waiting"
          /\ winner' = NULL
          /\ sent' = <<ResetMsg(sockCount)>>]_vars

\* C4: whenever the phase is Ready the roster has exactly 2 players.
C4_ReadyHasTwoPlayers == gameStatus = "ready" => Len(players) = 2

\* C5: the targeting loop is active only while the phase is Ready: once the
\* "over" screen is rendered no camera stream and no render loop is left.
C5_NoLoopAfterOver == rendered.gameStatus = "over" => (streams = 0 /\ loops = 0)

\* C6: a shot attempt that resumes when the phase is no longer Ready is
\* discarded: it writes no shoot message, to the wire or to the send buffer.
C6_NoShootUnlessReady ==
    [][\A s \in shots :
          (ShotEstimated(s) /\ gameStatus # "ready") => (sent' = sent /\ sendBuffer' = sendBuffer)]_vars

\* C7: an attempt made less than 500 ms after an attempt that passed the cooldown
\* check is suppressed: the last-shot time stays, no pose estimate is
\* requested and nothing is sent.
C7_CooldownSuppresses ==
    [][\A slow \in BOOLEAN :
          (handleShoot(slow) /\ passedAt # 0 /\ now - passedAt < Cooldown) =>
              /\ lastShot' = lastShot
              /\ shots' = shots
              /\ sent' = sent
              /\ sendBuffer' = sendBuffer]_vars
\* The Shoot button can be pressed a quarter of a second after an attempt that passed.
C7_Witness ==
    /\ ~Dirty
    /\ rendered.gameStatus = "ready"
    /\ netLoaded
    /\ passedAt # 0
    /\ now = passedAt + TickMs

\* A keypoint that is in range, in the y-band of its zone, and of a group
\* whose collective score exceeds 0.5.
Qualifies(pose, part, radius) ==
    LET kp == pose[part]
        d2 == (kp.x - 320) * (kp.x - 320) + (kp.y - 240) * (kp.y - 240)
    IN  /\ d2 < radius * radius
        /\ \/ Includes(headParts, part) /\ kp.y < 240 /\ ScoreGt(headScore(pose), ScoreOf(50))
           \/ Includes(torsoParts, part) /\ kp.y >= 240 /\ kp.y < 408 /\ ScoreGt(torsoScore(pose), ScoreOf(50))
           \/ Includes(lowerBodyParts, part) /\ kp.y >= 408 /\ ScoreGt(lowerBodyScore(pose), ScoreOf(50))

\* C8: a shot is a hit only if some keypoint qualifies, and every shoot
\* message carries damage 10, 15 or 20.
C8_HitNeedsQualifyingZone ==
    /\ lastOutcome = "hit" => \E part \in DOMAIN frame : Qualifies(frame, part, Radius(selectedGun))
    /\ \A m \in ShootOutbound : m.damage \in {10, 15, 20}

\* C9: when no keypoint of the pose lies at distance < aimRadius from the
\* frame center (320, 240), the shot is no hit and no shoot message is sent.
C9_OutOfRangeNoHit ==
    (\A part \in DOMAIN frame :
        (frame[part].x - 320) * (frame[part].x - 320) + (frame[part].y - 240) * (frame[part].y - 240)
            >= Radius(selectedGun) * Radius(selectedGun))
    => (lastOutcome # "hit" /\ ShootOutbound = {})
\* A shot at a pose with confident keypoints, all out of range, has ended as a miss.
C9_Witness ==
    /\ lastOutcome = "miss"
    /\ \E part \in DOMAIN frame : frame[part].score > 50
    /\ \A part \in DOMAIN frame : ~InRange(frame[part], Radius(selectedGun))

\* C10: whenever the phase is Over the winner is set.
C10_OverHasWinner == gameStatus = "over" => winner # NULL
\* The game is over again after a reset had cleared the winner.
C10_Witness ==
    /\ gameStatus = "over"
    /\ rendered.gameStatus = "waiting"
    /\ sockCount > 1

\* The state a delivery of roster r on the current socket leaves behind: the
\* roster is r, and the phase is Ready when r has two players and the socket
\* was opened in the lobby.
Delivered(r) ==
    /\ sockStatus = "connected"
    /\ players = r
    /\ (Len(r) = 2 /\ sockPhase = "waiting") => gameStatus = "ready"

\* C11: a playerUpdate leaves the roster equal to its payload and causes no
\* outbound message, no new connection and no camera or loop start; delivered
\* again right after itself it changes nothing at all.
C11_PlayerUpdateIdempotent ==
    [][\A r \in Rosters(sockCount) :
          PlayerUpdate(r) =>
              /\ Delivered(r)'
              /\ UNCHANGED <<sent, sockVars, enumPending, camVars>>
              /\ Delivered(r) => UNCHANGED vars]_vars
\* The two-player roster has just been delivered in the lobby, where a
\* second delivery would meet the phase test again.
C11_Witness ==
    /\ Delivered(<<sockCount, OpponentId>>)
    /\ sockPhase = "waiting"
    /\ Dirty

\* C12: a shot attempt whose pose estimate fails ends inside the handler: the
\* step that catches the failure records no hit and writes no message, and
\* no step of the attempt (the click, the grace timer, the catch) changes
\* phase, roster or winner; the click has set the last-shot time.
C12_EstimateFailureCaught ==
    [][/\ \A s \in shots :
             ShotFailed(s) =>
                 /\ lastOutcome' # "hit"
                 /\ UNCHANGED <<sent, sendBuffer, gameStatus, players, winner, lastShot>>
       /\ \A s \in shots : ShotGraceElapsed(s) => UNCHANGED <<sent, sendBuffer, gameStatus, players, winner>>
       /\ \A slow \in BOOLEAN :
             handleShoot(slow) =>
                 /\ UNCHANGED <<sent, sendBuffer, gameStatus, players, winner>>
                 /\ lastShot' \in {lastShot, now}]_vars
\* An attempt has set the last-shot time and failed in the estimate, and no
\* other attempt is in flight.
C12_Witness ==
    /\ lastOutcome = "error"
    /\ lastShot # 0
    /\ lastShot = passedAt
    /\ shots = {}

\* Single-keypoint poses, one for each zone: a head and a shoulder at distance
\* 40 from the frame center, a hip at distance 210.
ZonePoses ==
    { [part \in {"nose"} |-> Kp(320, 200, 90)],
      [part \in {"leftShoulder"} |-> Kp(320, 280, 90)],
      [part \in {"leftHip"} |-> Kp(320, 450, 90)] }

\* C13: choosing a weapon makes it the active one, whose aim radius (sniper
\* 100, pistol 200, shotgun 400) the shots made from then on use; phase,
\* roster, winner, last-shot time, local id, device, shots in flight and
\* outbound messages are unchanged; and a zone's damage (head 20, torso 15,
\* lower body 10) is the same with every weapon that reaches it.
C13_GunChangeOnlyWeapon ==
    [][\A gun \in Guns :
          handleGunChange(gun) =>
              /\ selectedGun' = gun
              /\ rendered'.selectedGun = gun
              /\ Radius(gun) = (CASE gun = "sniper" -> 100 [] gun = "pistol" -> 200 [] gun = "shotgun" -> 400)
              /\ UNCHANGED <<gameStatus, players, winner, lastShot, socketId, selectedDeviceId>>
              /\ UNCHANGED <<shotVars, sent, sockVars>>
              /\ \A pose \in ZonePoses :
                    LET before == DetectHit(pose, selectedGun)
                        after == DetectHit(pose, gun)
                    IN  /\ (before.hitDetected /\ after.hitDetected) => after.damage = before.damage
                        /\ after.hitDetected =>
                               \/ after.hitType = "Headshot" /\ after.damage = 20
                               \/ after.hitType = "Torso shot" /\ after.damage = 15
                               \/ after.hitType = "Lower body shot" /\ after.damage = 10]_vars
\* The weapon has been changed after a shot was made.
C13_Witness ==
    /\ selectedGun # "pistol"
    /\ rendered.selectedGun = selectedGun
    /\ lastShot # 0

\* The pose of C14: the nose at (320, 100) with score 0.9, and no other
\* keypoint that passes the 0.3 filter of the groups.
NoseOnly(pose) ==
    /\ "nose" \in DOMAIN pose
    /\ pose["nose"] = Kp(320, 100, 90)
    /\ \A part \in DOMAIN pose \ {"nose"} : pose[part].score <= 30
\* The shot at the pose in front of the camera has been made and has ended.
ShotDone == lastShot # 0 /\ shots = {} /\ lastOutcome \in {"hit", "miss"}

\* C14 as stated: a finished shot at the nose-only pose is a hit on the head,
\* sent with damage 20, with each of the three weapons.
C14_NoseOnlyHeadAnyWeapon ==
    (NoseOnly(frame) /\ ShotDone) =>
        /\ lastOutcome = "hit"
        /\ ShootOutbound # {}
        /\ \A m \in ShootOutbound : m.damage = 20

\* C14 amended: a finished shot at the nose-only pose, which is 140 px from the
\* frame center, is a hit on the head sent with damage 20 with the pistol and
\* with the shotgun, and no hit, with nothing sent, with the sniper.
C14_NoseOnlyHeadInRange ==
    (NoseOnly(frame) /\ ShotDone) =>
        IF selectedGun = "sniper"
        THEN lastOutcome = "miss" /\ ShootOutbound = {}
        ELSE /\ lastOutcome = "hit"
             /\ DetectHit(frame, selectedGun).hitType = "Headshot"
             /\ ShootOutbound # {}
             /\ \A m \in ShootOutbound : m.damage = 20
\* The pistol has hit the nose-only pose.
C14_Witness ==
    /\ NoseOnly(frame)
    /\ ShotDone
    /\ selectedGun = "pistol"
    /\ lastOutcome = "hit"

\* A roster of more than two players, or of two players with the same id.
Malformed(r) == Len(r) > 2 \/ (Len(r) = 2 /\ r[1] = r[2])

\* C15: a playerUpdate that carries a malformed roster leaves roster and phase
\* as they were, and the roster it leaves is well-formed.
C15_MalformedRosterIgnored ==
    [][\A r \in Rosters(sockCount) :
          (PlayerUpdate(r) /\ Malformed(r)) =>
              /\ UNCHANGED <<players, gameStatus>>
              /\ ~Malformed(players')]_vars

\* One of the three handles the shot needs is missing: the socket, the pose
\* model, the <video> element.
HandleMissing == sockCount = 0 \/ ~netLoaded \/ rendered.gameStatus # "ready"

\* C16: a press of Shoot while a handle is missing changes nothing: the
\* last-shot time stays, no estimate is requested, nothing is written or
\* buffered; and as long as the pose model has not been loaded no estimate
\* is in flight and no shoot message is outbound.
C16_MissingHandleNoOp ==
    [][/\ \A slow \in BOOLEAN :
             (handleShoot(slow) /\ HandleMissing) => UNCHANGED <<lastShot, shots, sent, sendBuffer, lastOutcome>>
       /\ ~netLoaded' => (shots' = {} /\ lastShot' = 0 /\ ShootOutbound' = {})]_vars
\* The Shoot button is on the screen while the pose model is still loading.
C16_Witness ==
    /\ ~Dirty
    /\ rendered.gameStatus = "ready"
    /\ ~netLoaded
    /\ chains.loading > 0

\* Zone z competes: a keypoint of its group that passed the 0.3 filter lies in
\* range and in the zone's band, and the group's collective score exceeds 0.5.
Zones == <<"Headshot", "Torso shot", "Lower body shot">>
ZoneScore(pose, z) ==
    IF z = "Headshot" THEN headScore(pose) ELSE IF z = "Torso shot" THEN torsoScore(pose) ELSE lowerBodyScore(pose)
ZoneDamage(z) == IF z = "Headshot" THEN 20 ELSE IF z = "Torso shot" THEN 15 ELSE 10
ZoneCompetes(pose, z, radius) ==
    /\ ScoreGt(ZoneScore(pose, z), ScoreOf(50))
    /\ \E part \in DOMAIN pose :
          LET kp == pose[part]
          IN  /\ kp.score > 30
              /\ (kp.x - 320) * (kp.x - 320) + (kp.y - 240) * (kp.y - 240) < radius * radius
              /\ \/ z = "Headshot" /\ Includes(headParts, part) /\ kp.y < 240
                 \/ z = "Torso shot" /\ Includes(torsoParts, part) /\ kp.y >= 240 /\ kp.y < 408
                 \/ z = "Lower body shot" /\ Includes(lowerBodyParts, part) /\ kp.y >= 408
\* The competing zones no other competing zone beats, and the first of them
\* in the order Head, Torso, LowerBody.
TopZones(pose, radius) ==
    {i \in 1..3 :
        /\ ZoneCompetes(pose, Zones[i], radius)
        /\ \A j \in 1..3 :
              ZoneCompetes(pose, Zones[j], radius) => ~ScoreGt(ZoneScore(pose, Zones[j]), ZoneScore(pose, Zones[i]))}
FirstTopZone(pose, radius) ==
    Zones[CHOOSE i \in TopZones(pose, radius) : \A j \in TopZones(pose, radius) : i <= j]
Competing(pose, radius) == {i \in 1..3 : ZoneCompetes(pose, Zones[i], radius)}

\* C17: a finished shot at a pose in which several zones compete is a hit on
\* the competing zone with the highest collective score, and among zones of
\* equal score on the first in the order Head, Torso, LowerBody; the
\* message carries that zone's damage.
C17_HighestScoreFirstZoneWins ==
    (ShotDone /\ Cardinality(Competing(frame, Radius(selectedGun))) >= 2) =>
        LET z == FirstTopZone(frame, Radius(selectedGun))
        IN  /\ lastOutcome = "hit"
            /\ DetectHit(frame, selectedGun).hitType = z
            /\ \A m \in ShootOutbound : m.damage = ZoneDamage(z)

\* The pose of C18: the left hip at y = 450 with score 0.6, and no other
\* keypoint that passes the 0.3 filter of the groups.
LeftHipOnly(pose) ==
    /\ "leftHip" \in DOMAIN pose
    /\ pose["leftHip"].y = 450
    /\ pose["leftHip"].score = 60
    /\ \A part \in DOMAIN pose \ {"leftHip"} : pose[part].score <= 30

\* C18: a finished shot at the left-hip-only pose with a weapon whose radius
\* reaches the hip is a hit on the lower body, sent with damage 10.
C18_LeftHipIsLowerBody ==
    LET hip == frame["leftHip"]
        r == Radius(selectedGun)
    IN  (/\ LeftHipOnly(frame)
         /\ ShotDone
         /\ (hip.x - 320) * (hip.x - 320) + (hip.y - 240) * (hip.y - 240) < r * r) =>
            /\ lastOutcome = "hit"
            /\ DetectHit(frame, selectedGun).hitType = "Lower body shot"
            /\ ShootOutbound # {}
            /\ \A m \in ShootOutbound : m.damage = 10
\* The shotgun has hit the left-hip-only pose.
C18_Witness ==
    /\ LeftHipOnly(frame)
    /\ ShotDone
    /\ selectedGun = "shotgun"
    /\ lastOutcome = "hit"

\* C19: a render that changes the phase keeps the relay connection and the
\* local id; and while the phase is Over with a winner that is not the
\* opponent (the relay named this client's connection), the winner is the
\* local id.
C19_LocalIdStable ==
    [][/\ rendered'.gameStatus # rendered.gameStatus => UNCHANGED <<sockCount, sockStatus, socketId>>
       /\ (gameStatus' = "over" /\ winner' # OpponentId) => winner' = socketId']_vars

\* C20: every shoot message, on the wire or buffered for it, carries as
\* shooterId the id of the connection it is written to, which is never null.
C20_ShooterIdIsConnectionId ==
    \A m \in ShootOutbound : m.shooterId # NULL /\ m.shooterId = m.sock

\* C21: at most one shot attempt is suspended, in the grace wait or in the
\* pose estimate, at any time.
C21_OneShotInFlight == Cardinality(shots) <= 1

\* C22: at most one camera stream is live and at most one render loop runs
\* at any time.
C22_OneTargetingLoop == streams <= 1 /\ loops <= 1

====
